---- MODULE Spec2Model ----
(***************************************************************************)
(* Model of yardenas/jax-sac: sac/replay_buffer.py (ReplayBuffer) and the  *)
(* two sampling/numerical helpers of sac/models.py (SampleDist.mode and    *)
(* StableTanhBijector._inverse).                                           *)
(*                                                                         *)
(* Python indices are kept 0-based as in the code (position, selected      *)
(* slots); a TLA+ sequence is 1-based, so slot i of a Python list l is     *)
(* l[i + 1] here.                                                          *)
(***************************************************************************)
EXTENDS Integers, Sequences, FiniteSets, TLC

VARIABLES
    rb,      \* the ReplayBuffer object: capacity, buffer, position, batch_size, random
    rngs,    \* heap of generator objects: reference -> Mersenne-Twister state (abstracted)
    gen,     \* the generator object returned by the last sample(n) call
    ret,     \* what the last operation returned, yielded or raised
    total,   \* ghost: number of store() calls completed
    recent,  \* ghost: the last min(total, capacity) stored transitions, oldest first
    rb2,     \* second ReplayBuffer (twin runs only)
    gen2,    \* its generator
    ret2,    \* its last result
    dist,    \* SampleDist._dist: the draws sample() returns and the log_prob table
    picked,  \* result of SampleDist.mode
    y,       \* input of StableTanhBijector._inverse: [dtype, v]
    inv      \* its result

vars == <<rb, rngs, gen, ret, total, recent, rb2, gen2, ret2, dist, picked, y, inv>>

----------------------------------------------------------------------------
(* Bounds of the model. *)

MaxCapacity == 3
MaxBatch == 3
MaxStores == 5
MaxSamples == 2

(* Inputs. *)
Capacities == 1..MaxCapacity
BatchSizes == 1..MaxBatch
Seeds == {0, 1}
\* Transitions handed to store(): (observation, action, reward, next_observation, terminal).
Transitions == {<<1, 2, 0, 2, FALSE>>, <<2, 1, 1, 1, TRUE>>, <<1, 1, 1, 2, TRUE>>}

None == "None"

----------------------------------------------------------------------------
(* random.Random: the generator is abstracted to a full-period linear      *)
(* congruential generator on RngBits bits; everything built on it          *)
(* (getrandbits, _randbelow, sample) follows CPython's random.py.          *)

RngBits == 4
RngMod == 16
RngA == 5
RngC == 3

\* random.Random(seed)
Seed(seed) == seed % RngMod

Pow2(k) == IF k = 0 THEN 1 ELSE IF k = 1 THEN 2 ELSE IF k = 2 THEN 4
           ELSE IF k = 3 THEN 8 ELSE 16

\* int.bit_length
BitLength(n) == IF n = 0 THEN 0 ELSE IF n < 2 THEN 1 ELSE IF n < 4 THEN 2
                ELSE IF n < 8 THEN 3 ELSE 4

\* Random.getrandbits(k): advance the state, return its k high bits.
GetRandBits(s, k) ==
    LET s1 == (RngA * s + RngC) % RngMod
    IN [state |-> s1, value |-> s1 \div Pow2(RngBits - k)]

\* Random._randbelow(n): rejection sampling on getrandbits(n.bit_length()).
RECURSIVE RandBelow(_, _)
RandBelow(s, n) ==
    LET g == GetRandBits(s, BitLength(n))
    IN IF g.value < n THEN g ELSE RandBelow(g.state, n)

\* Mutant of SampleLoop: the pool is not updated, so a position can be drawn twice.
RECURSIVE SampleLoopWithReplacement(_, _, _, _, _)
SampleLoopWithReplacement(s, pool, n, k, i) ==
    IF i = k THEN [state |-> s, idx |-> <<>>]
    ELSE LET g == RandBelow(s, n)
             rest == SampleLoopWithReplacement(g.state, pool, n, k, i + 1)
         IN [state |-> rest.state, idx |-> <<pool[g.value + 1]>> \o rest.idx]

\* The pool loop of Random.sample: for i in range(k): j = randbelow(n - i);
\* result[i] = pool[j]; pool[j] = pool[n - i - 1].  The pool holds slot indices.
RECURSIVE SampleLoop(_, _, _, _, _)
SampleLoop(s, pool, n, k, i) ==
    IF i = k THEN [state |-> s, idx |-> <<>>]
    ELSE LET g == RandBelow(s, n - i)
             rest == SampleLoop(g.state, [pool EXCEPT ![g.value + 1] = pool[n - i]],
                                n, k, i + 1)
         IN [state |-> rest.state, idx |-> <<pool[g.value + 1]>> \o rest.idx]

\* Mutant of RandomSample: a request larger than the population is cut down to
\* the population instead of raising.
RandomSampleTruncating(s, population, k) ==
    LET n == Len(population)
        m == IF k > n THEN n ELSE k
        r == SampleLoop(s, [j \in 1..n |-> j - 1], n, m, 0)
    IN [ok |-> TRUE, state |-> r.state, idx |-> r.idx,
        result |-> [i \in 1..m |-> population[r.idx[i] + 1]]]

\* Random.sample(population, k): ValueError unless 0 <= k <= len(population);
\* otherwise k elements of distinct positions.  idx are the positions chosen
\* (0-based), result the elements at them, state the generator's new state.
RandomSample(s, population, k) ==
    LET n == Len(population)
    IN IF k < 0 \/ k > n
       THEN [ok |-> FALSE, state |-> s, idx |-> <<>>, result |-> <<>>]
       ELSE LET r == SampleLoop(s, [j \in 1..n |-> j - 1], n, k, 0)
            IN [ok |-> TRUE, state |-> r.state, idx |-> r.idx,
                result |-> [i \in 1..k |-> population[r.idx[i] + 1]]]

----------------------------------------------------------------------------
(* ReplayBuffer *)

\* Mutant of __init__: random.seed(seed); self._random = random, i.e. the
\* module-level generator shared by every buffer instead of a private one.
__init__Shared(heap, ref, capacity, seed, batch_size) ==
    [obj |-> [random |-> "global", capacity |-> capacity, buffer |-> <<>>,
              position |-> 0, batch_size |-> batch_size],
     heap |-> [r \in DOMAIN heap \cup {ref} |->
                 IF r = "global" THEN Seed(seed) ELSE IF r = ref THEN 0 ELSE heap[r]]]

\* ReplayBuffer.__init__: the object, and the heap with its fresh generator.
__init__(heap, ref, capacity, seed, batch_size) ==
    [obj |-> [random |-> ref, capacity |-> capacity, buffer |-> <<>>,
              position |-> 0, batch_size |-> batch_size],
     heap |-> [r \in DOMAIN heap \cup {ref} |-> IF r = ref THEN Seed(seed) ELSE heap[r]]]

\* Mutants of store.
\* (a) the cursor sticks at the last slot instead of wrapping: the newest
\*     transition is evicted, not the oldest.
storeNoWrap(self, observation, action, reward, next_observation, terminal) ==
    LET appended == IF Len(self.buffer) < self.capacity
                    THEN Append(self.buffer, None) ELSE self.buffer
    IN [self EXCEPT
          !.buffer = [appended EXCEPT ![self.position + 1] =
                        <<observation, action, reward, next_observation, terminal>>],
          !.position = IF self.position + 1 < self.capacity
                       THEN self.position + 1 ELSE self.position]
\* (b) no eviction: every transition is appended.
storeAppendOnly(self, observation, action, reward, next_observation, terminal) ==
    [self EXCEPT
       !.buffer = Append(self.buffer,
                         <<observation, action, reward, next_observation, terminal>>),
       !.position = (self.position + 1) % self.capacity]
\* (c) a full buffer is shifted left and the new transition appended at the end.
storeShifting(self, observation, action, reward, next_observation, terminal) ==
    LET t == <<observation, action, reward, next_observation, terminal>>
    IN [self EXCEPT
          !.buffer = IF Len(self.buffer) < self.capacity
                     THEN Append(self.buffer, t) ELSE Append(Tail(self.buffer), t),
          !.position = (self.position + 1) % self.capacity]

\* ReplayBuffer.store on object self.
store(self, observation, action, reward, next_observation, terminal) ==
    LET appended == IF Len(self.buffer) < self.capacity
                    THEN Append(self.buffer, None) ELSE self.buffer
    IN [self EXCEPT
          !.buffer = [appended EXCEPT ![self.position + 1] =
                        <<observation, action, reward, next_observation, terminal>>],
          !.position = (self.position + 1) % self.capacity]

\* ReplayBuffer.__len__
__len__(self) == Len(self.buffer)

\* Mutant of Stack: the reward column is stacked in reverse selection order.
StackMisaligned(batch) ==
    [f \in 1..5 |-> [i \in 1..Len(batch) |->
        IF f = 3 THEN batch[Len(batch) + 1 - i][f] ELSE batch[i][f]]]

\* map(np.stack, zip(*batch)): field f of the result lists field f of every
\* selected transition, in selection order.
Stack(batch) == [f \in 1..5 |-> [i \in 1..Len(batch) |-> batch[i][f]]]

\* Calling sample(samples) runs none of its body: it returns a generator
\* suspended before the first statement.
sample(samples, calledAt, calledLen) ==
    [status |-> "suspended", left |-> samples,
     n |-> samples, yielded |-> 0, calledAt |-> calledAt, calledLen |-> calledLen]

\* Mutant of resume: the generator samples the slots that existed when
\* sample() was called (a snapshot of the length taken at the call).
resumeSnapshot(self, g, heap) ==
    IF g.left = 0
    THEN [gen |-> [g EXCEPT !.status = "finished"], heap |-> heap,
          ret |-> [kind |-> "StopIteration"]]
    ELSE LET s == RandomSample(heap[self.random],
                               SubSeq(self.buffer, 1, g.calledLen), self.batch_size)
             cols == Stack(s.result)
         IN IF ~s.ok
            THEN [gen |-> [g EXCEPT !.status = "finished"], heap |-> heap,
                  ret |-> [kind |-> "ValueError"]]
            ELSE [gen |-> [g EXCEPT !.left = @ - 1, !.yielded = @ + 1],
                  heap |-> [heap EXCEPT ![self.random] = s.state],
                  ret |-> [kind |-> "batch", observation |-> cols[1],
                           action |-> cols[2], reward |-> cols[3],
                           next_observation |-> cols[4], terminal |-> cols[5],
                           idx |-> s.idx, selected |-> s.result]]

\* next() on the generator g of sample(): one turn of the for loop up to the
\* yield, StopIteration when range(samples) is used up, or the ValueError of
\* random.sample, which ends the generator.
resume(self, g, heap) ==
    IF g.left = 0
    THEN [gen |-> [g EXCEPT !.status = "finished"], heap |-> heap,
          ret |-> [kind |-> "StopIteration"]]
    ELSE LET s == RandomSample(heap[self.random], self.buffer, self.batch_size)
             cols == Stack(s.result)
         IN IF ~s.ok
            THEN [gen |-> [g EXCEPT !.status = "finished"], heap |-> heap,
                  ret |-> [kind |-> "ValueError"]]
            ELSE [gen |-> [g EXCEPT !.left = @ - 1, !.yielded = @ + 1],
                  heap |-> [heap EXCEPT ![self.random] = s.state],
                  ret |-> [kind |-> "batch", observation |-> cols[1],
                           action |-> cols[2], reward |-> cols[3],
                           next_observation |-> cols[4], terminal |-> cols[5],
                           idx |-> s.idx, selected |-> s.result]]

NoGen == [status |-> "none", left |-> 0, n |-> 0, yielded |-> 0,
          calledAt |-> 0, calledLen |-> 0]
NoRet == [kind |-> "None"]
Heap0 == [r \in {"global"} |-> 0]

\* ghost: the window of the last `capacity` stored transitions
Window(w, capacity, t) ==
    LET a == Append(w, t)
    IN IF Len(a) > capacity THEN Tail(a) ELSE a

NoMode == [index |-> -1, value |-> 0]
NoInverse == [done |-> FALSE]

\* the parts of the state a run does not use
IdleTwin == rb2 = None /\ gen2 = NoGen /\ ret2 = NoRet
IdleBuffer ==
    /\ rb = None /\ rngs = Heap0 /\ gen = NoGen /\ ret = NoRet
    /\ total = 0 /\ recent = <<>>
IdleMode == dist = None /\ picked = NoMode
IdleInverse == y = None /\ inv = NoInverse

\* ReplayBuffer(capacity, seed, batch_size)
Init ==
    /\ \E capacity \in Capacities, seed \in Seeds, batch_size \in BatchSizes :
         LET new == __init__(Heap0, "rb", capacity, seed, batch_size)
         IN rb = new.obj /\ rngs = new.heap
    /\ gen = NoGen /\ ret = NoRet /\ total = 0 /\ recent = <<>>
    /\ IdleTwin /\ IdleMode /\ IdleInverse

\* a call of store(*t); the number of calls is capped at MaxStores
Store(t) ==
    /\ total < MaxStores
    /\ rb' = store(rb, t[1], t[2], t[3], t[4], t[5])
    /\ total' = total + 1
    /\ recent' = Window(recent, rb.capacity, t)
    /\ ret' = NoRet
    /\ UNCHANGED <<rngs, gen, rb2, gen2, ret2, dist, picked, y, inv>>

\* a call of sample(samples): the caller gets a new generator and drops the old
Sample(samples) ==
    /\ gen' = sample(samples, total, __len__(rb))
    /\ ret' = [kind |-> "generator"]
    /\ UNCHANGED <<rb, rngs, total, recent, rb2, gen2, ret2, dist, picked, y, inv>>

\* the caller requests the next batch from its generator
Resume ==
    /\ gen.status = "suspended"
    /\ LET r == resume(rb, gen, rngs)
       IN gen' = r.gen /\ rngs' = r.heap /\ ret' = r.ret
    /\ UNCHANGED <<rb, total, recent, rb2, gen2, ret2, dist, picked, y, inv>>

Next ==
    \/ \E t \in Transitions : Store(t)
    \/ \E samples \in 0..MaxSamples : Sample(samples)
    \/ Resume

Spec == Init /\ [][Next]_vars

----------------------------------------------------------------------------
(* Properties of ReplayBuffer. *)

Min(a, b) == IF a < b THEN a ELSE b
IsBatch == ret.kind = "batch"
Distinct(q) == \A i, j \in 1..Len(q) : i # j => q[i] # q[j]
\* the row of a yielded batch at sample index i (1-based)
Row(b, i) == <<b.observation[i], b.action[i], b.reward[i],
               b.next_observation[i], b.terminal[i]>>
\* the slot (0-based) holding the j-th oldest of the transitions held
SlotOfAge(j) ==
    IF total <= rb.capacity THEN j - 1 ELSE (rb.position + j - 1) % rb.capacity
\* the number of the store() call that last wrote slot i (0-based)
StampOf(i) ==
    CHOOSE k \in 1..total :
        /\ (k - 1) % rb.capacity = i
        /\ \A m \in (k + 1)..total : (m - 1) % rb.capacity # i

\* C1: after any number of store() calls the buffer holds exactly the
\* min(total, capacity) most recently stored transitions, each in one slot, in
\* ring order starting at the cursor: a store into a full buffer evicts the
\* oldest transition held and nothing else.
C1_FifoEviction ==
    /\ Len(rb.buffer) = Len(recent)
    /\ \A j \in 1..Len(recent) : rb.buffer[SlotOfAge(j) + 1] = recent[j]

\* C1 witness: capacity 3 after five stores T1..T5 holds T3, T4, T5 (slots
\* 0, 1 rewritten by T4, T5; slot 2 still T3), with T3, T4, T5 not all equal.
C1_Witness ==
    /\ rb.capacity = 3 /\ total = 5
    /\ rb.buffer = <<recent[2], recent[3], recent[1]>>
    /\ recent[1] # recent[2] /\ recent[2] # recent[3]

\* C2: length() = min(number of stores, capacity), whatever sample() calls and
\* batch requests are interleaved; in particular length() <= capacity.
C2_Length ==
    /\ __len__(rb) = Min(total, rb.capacity)
    /\ __len__(rb) <= rb.capacity

\* C2 witness: a full buffer after more stores than capacity, with batches
\* already drawn from it.
C2_Witness ==
    /\ total > rb.capacity /\ __len__(rb) = rb.capacity /\ gen.yielded > 0

C4_RaisedAtCall ==
    /\ ret.kind = "generator" => rb.batch_size <= __len__(rb)
    /\ gen.calledLen < rb.batch_size => gen.yielded = 0

\* a step that requests the next batch from the generator
IsResume == ret'.kind \in {"batch", "ValueError", "StopIteration"}

\* C4 amended: sample(n) itself never raises; the request for a batch made
\* while batch_size > length (with iterations left) raises ValueError, yields
\* nothing and ends the generator; a request made with no iteration left just
\* stops; and no batch ever has fewer or more than batch_size rows.
C4_RaisedAtRequest ==
    /\ [](ret.kind = "ValueError" => (gen.status = "finished" /\ gen.left > 0))
    /\ [](IsBatch => Len(ret.selected) = rb.batch_size)
    /\ [][(IsResume /\ gen.left > 0 /\ rb.batch_size > __len__(rb)) =>
            (ret'.kind = "ValueError" /\ gen'.yielded = gen.yielded)]_vars
    /\ [][(IsResume /\ gen.left = 0) => ret'.kind = "StopIteration"]_vars
    /\ [][gen' # gen /\ ~IsResume => ret'.kind = "generator"]_vars

\* C4 witness: the first request on an empty buffer has just raised.
C4_Witness ==
    /\ ret.kind = "ValueError" /\ __len__(rb) = 0 /\ gen.yielded = 0

\* C5: at every sample index the five stacked fields are the five fields of
\* the transition selected at that index.
C5_FieldAlignment ==
    IsBatch => \A i \in 1..rb.batch_size :
        /\ Row(ret, i) = ret.selected[i]
        /\ Row(ret, i) = rb.buffer[ret.idx[i] + 1]

\* C5 witness: a batch of two different transitions.
C5_Witness ==
    /\ IsBatch /\ rb.batch_size >= 2 /\ ret.selected[1] # ret.selected[2]
    /\ ret.selected[1][3] # ret.selected[2][3]

\* C7: store() writes the slot at the cursor (appended first when not full),
\* leaves every other slot as it was and advances the cursor modulo capacity;
\* the cursor is the number of stores modulo capacity and equals the length
\* while the buffer is not full; nothing but store() changes the buffer object.
C7_StoreFrame ==
    /\ [](/\ 0 <= rb.position /\ rb.position < rb.capacity
          /\ rb.position = total % rb.capacity
          /\ __len__(rb) < rb.capacity => rb.position = __len__(rb))
    /\ [][total' = total + 1 =>
            /\ Len(rb'.buffer) = IF __len__(rb) < rb.capacity THEN __len__(rb) + 1 ELSE __len__(rb)
            /\ rb'.buffer[rb.position + 1] = recent'[Len(recent')]
            /\ \A i \in 1..__len__(rb) : i # rb.position + 1 => rb'.buffer[i] = rb.buffer[i]
            /\ rb'.position = (rb.position + 1) % rb.capacity
            /\ rb'.capacity = rb.capacity /\ rb'.batch_size = rb.batch_size]_vars
    /\ [][total' = total => rb' = rb]_vars

\* C7 witness: a store has just overwritten a slot of a full buffer of
\* capacity 3 whose neighbours hold other transitions.
C7_Witness ==
    /\ rb.capacity = 3 /\ total = 4 /\ ret.kind = "None"
    /\ rb.buffer[1] = recent[3] /\ rb.buffer[1] # rb.buffer[2]

\* C10: a batch is drawn from the buffer as it is when the batch is requested:
\* its rows are the transitions now in the selected (distinct) slots, and the
\* request fails only if batch_size exceeds the length at that moment,
\* whatever the buffer was when sample(n) was called.
C10_NoSnapshot ==
    /\ IsBatch =>
         /\ rb.batch_size <= __len__(rb)
         /\ Distinct(ret.idx)
         /\ \A i \in 1..Len(ret.idx) : ret.selected[i] = rb.buffer[ret.idx[i] + 1]
    /\ ret.kind = "ValueError" => rb.batch_size > __len__(rb)
    /\ (gen.status = "suspended" /\ gen.left > 0 /\ rb.batch_size <= __len__(rb)) =>
         resume(rb, gen, rngs).ret.kind = "batch"

\* C10 witness: sample(n) was called on a buffer shorter than batch_size,
\* stores followed, and the batch then yielded holds a transition stored
\* after the call.
C10_Witness ==
    /\ IsBatch /\ gen.calledLen < rb.batch_size
    /\ \E i \in 1..Len(ret.idx) : StampOf(ret.idx[i]) > gen.calledAt

----------------------------------------------------------------------------
(* Two ReplayBuffers built with the same arguments and driven by the same   *)
(* calls: every call is made on the first buffer, then on the second.       *)

InitTwin ==
    /\ \E capacity \in Capacities, seed \in Seeds, batch_size \in BatchSizes :
         LET a == __init__(Heap0, "rb", capacity, seed, batch_size)
             b == __init__(a.heap, "rb2", capacity, seed, batch_size)
         IN rb = a.obj /\ rb2 = b.obj /\ rngs = b.heap
    /\ gen = NoGen /\ ret = NoRet /\ gen2 = NoGen /\ ret2 = NoRet
    /\ total = 0 /\ recent = <<>>
    /\ IdleMode /\ IdleInverse

TwinStore(t) ==
    /\ total < MaxStores
    /\ rb' = store(rb, t[1], t[2], t[3], t[4], t[5])
    /\ rb2' = store(rb2, t[1], t[2], t[3], t[4], t[5])
    /\ total' = total + 1
    /\ recent' = Window(recent, rb.capacity, t)
    /\ ret' = NoRet /\ ret2' = NoRet
    /\ UNCHANGED <<rngs, gen, gen2, dist, picked, y, inv>>

TwinSample(samples) ==
    /\ gen' = sample(samples, total, __len__(rb))
    /\ gen2' = sample(samples, total, __len__(rb2))
    /\ ret' = [kind |-> "generator"] /\ ret2' = [kind |-> "generator"]
    /\ UNCHANGED <<rb, rb2, rngs, total, recent, dist, picked, y, inv>>

TwinResume ==
    /\ gen.status = "suspended" /\ gen2.status = "suspended"
    /\ LET r1 == resume(rb, gen, rngs)
           r2 == resume(rb2, gen2, r1.heap)
       IN /\ gen' = r1.gen /\ ret' = r1.ret
          /\ gen2' = r2.gen /\ ret2' = r2.ret
          /\ rngs' = r2.heap
    /\ UNCHANGED <<rb, rb2, total, recent, dist, picked, y, inv>>

NextTwin ==
    \/ \E t \in Transitions : TwinStore(t)
    \/ \E samples \in 0..MaxSamples : TwinSample(samples)
    \/ TwinResume

SpecTwin == InitTwin /\ [][NextTwin]_vars

\* C6: two buffers built with the same capacity, seed and batch_size and given
\* the same calls return the same thing at every call, batch for batch; the
\* state of a buffer's generator is changed by batch requests only, never by
\* store() or by the sample() call, and a request that fails or stops leaves it.
C6_Reproducible ==
    /\ [](ret2 = ret /\ gen2 = gen /\ rb2.buffer = rb.buffer)
    /\ [](rngs[rb2.random] = rngs[rb.random])
    /\ [][ret'.kind \in {"None", "generator", "ValueError", "StopIteration"}
            => rngs' = rngs]_vars

\* C6 witness: both buffers have yielded the same second batch of one call,
\* with a store made between the two batches.
C6_Witness ==
    /\ ret.kind = "batch" /\ ret2 = ret /\ gen.yielded = 2 /\ total > gen.calledAt
    /\ rb.batch_size >= 2 /\ __len__(rb) > rb.batch_size

----------------------------------------------------------------------------
(* SampleDist.mode *)

MaxDraws == 3
Values == {1, 2, 3}
LogProbs == {-3, -2, -1}

\* Mutant of ArgMaxFrom: a later element equal to the best so far replaces it.
RECURSIVE ArgMaxLastFrom(_, _, _)
ArgMaxLastFrom(xs, i, best) ==
    IF i > Len(xs) THEN best
    ELSE ArgMaxLastFrom(xs, i + 1, IF xs[i] >= xs[best] THEN i ELSE best)

\* jnp.argmax over a vector: a scan keeping the first maximal element
\* (positions 1-based here).
RECURSIVE ArgMaxFrom(_, _, _)
ArgMaxFrom(xs, i, best) ==
    IF i > Len(xs) THEN best
    ELSE ArgMaxFrom(xs, i + 1, IF xs[i] > xs[best] THEN i ELSE best)

\* jnp.argmax(logprob), 0-based
ArgMax(xs) == ArgMaxFrom(xs, 2, 1) - 1

\* self._dist.sample(self._samples, seed=seed): the draws the wrapped
\* distribution returns for the seed
DistSample(d) == d.draws

\* self._dist.log_prob(sample): one log-probability per draw
DistLogProb(d, smp) == [i \in 1..Len(smp) |-> d.log_prob[smp[i]]]

\* SampleDist.mode(seed)
mode(d) ==
    LET smp == DistSample(d)
        logprob == DistLogProb(d, smp)
        a == ArgMax(logprob)
    IN [index |-> a, value |-> smp[a + 1]]

InitMode ==
    /\ \E samples \in 1..MaxDraws :
         \E draws \in [1..samples -> Values], lp \in [Values -> LogProbs] :
            dist = [samples |-> samples, draws |-> draws, log_prob |-> lp]
    /\ picked = NoMode
    /\ IdleBuffer /\ IdleTwin /\ IdleInverse

CallMode ==
    /\ picked = NoMode
    /\ picked' = mode(dist)
    /\ UNCHANGED <<rb, rngs, gen, ret, total, recent, rb2, gen2, ret2, dist, y, inv>>

NextMode == CallMode

SpecMode == InitMode /\ [][NextMode]_vars

\* C8: mode() returns one of the `samples` draws, one whose log-probability is
\* maximal among the draws, and of those the one of smallest draw index.
C8_ModeFirstArgmax ==
    picked # NoMode =>
        LET lp == [i \in 1..dist.samples |-> dist.log_prob[dist.draws[i]]]
            m == picked.index + 1
        IN /\ Len(dist.draws) = dist.samples
           /\ m \in 1..dist.samples
           /\ picked.value = dist.draws[m]
           /\ \A j \in 1..dist.samples : lp[j] <= lp[m]
           /\ \A j \in 1..(m - 1) : lp[j] < lp[m]

\* C8 witness: the first and the last draw differ and share the maximal
\* log-probability; the first is returned.
C8_Witness ==
    /\ picked # NoMode /\ dist.samples = 3 /\ picked.index = 0
    /\ dist.draws[3] # dist.draws[1]
    /\ dist.log_prob[dist.draws[3]] = dist.log_prob[dist.draws[1]]
    /\ dist.log_prob[dist.draws[2]] < dist.log_prob[dist.draws[1]]

----------------------------------------------------------------------------
(* StableTanhBijector._inverse                                              *)
(*                                                                          *)
(* A floating-point value is nan, a signed infinity, or a sign s and a      *)
(* magnitude q counted in units of 2^-26 (One is 1.0).  A dtype is given by *)
(* its precision p (significand bits); float64 is modelled by the values of *)
(* the 2^-26 grid, all of which it represents exactly.                      *)

One == 67108864
NearOne == 12
\* the literal 0.99999997 of the clip, as a fraction
ClipLiteralNum == 99999997
ClipLiteralDen == 100000000

DTypes == {"float16", "bfloat16", "float32", "float64"}
Precision(dtype) ==
    CASE dtype = "float16" -> 11 [] dtype = "bfloat16" -> 8
      [] dtype = "float32" -> 24 [] dtype = "float64" -> 27

RECURSIVE Exp2(_)
Exp2(k) == IF k <= 0 THEN 1 ELSE 2 * Exp2(k - 1)
RECURSIVE FloorLog2(_)
FloorLog2(n) == IF n < 2 THEN 0 ELSE 1 + FloorLog2(n \div 2)

Num(s, q) == [k |-> "num", s |-> s, q |-> q]
Inf(s) == [k |-> "inf", s |-> s]
NaN == [k |-> "nan"]

\* distance between neighbouring values of precision p around magnitude q
Spacing(q, p) == IF q = 0 THEN 1 ELSE Exp2(FloorLog2(q) - p + 1)

\* round magnitude q to precision p: to nearest, ties to even
RoundTo(q, p) ==
    LET sp == Spacing(q, p)
        lo == (q \div sp) * sp
        rem == q - lo
    IN IF 2 * rem < sp THEN lo
       ELSE IF 2 * rem > sp THEN lo + sp
       ELSE IF (lo \div sp) % 2 = 0 THEN lo ELSE lo + sp

\* the literal 0.99999997 = 1 - (Den - Num)/Den converted to precision p: the
\* nearest 1 - k * 2^-p, as a magnitude
ClipBound(p) ==
    LET k == (2 * (ClipLiteralDen - ClipLiteralNum) * Exp2(p) + ClipLiteralDen)
                \div (2 * ClipLiteralDen)
    IN One - k * Exp2(26 - p)

\* y.astype(dtype) of a number
AsType(v, p) == IF v.k = "num" THEN Num(v.s, RoundTo(v.q, p)) ELSE v

\* jnp.clip(y, -b, b) = minimum(maximum(y, -b), b); nan stays nan
Clip(v, b) ==
    CASE v.k = "nan" -> v
      [] v.k = "inf" -> Num(v.s, b)
      [] OTHER -> IF v.q > b THEN Num(v.s, b) ELSE v

\* jnp.arctanh: infinite at +-1, nan beyond.  A finite result is kept as the
\* argument with bits = floor(log2((1 + |y|) / (1 - |y|))), so that
\* |arctanh(y)| < (bits + 1) * ln(2) / 2.
Arctanh(v) ==
    CASE v.k = "nan" -> NaN
      [] v.k = "inf" -> NaN
      [] v.q = One -> Inf(v.s)
      [] v.q > One -> NaN
      [] OTHER -> [k |-> "atanh", s |-> v.s, q |-> v.q,
                   bits |-> FloorLog2((One + v.q) \div (One - v.q))]

\* largest finite value of a dtype (65504 for float16; above 10^38 for the
\* others, cut here to the largest integer at hand)
MaxFinite(dtype) == IF dtype = "float16" THEN 65504 ELSE 2147483647

\* the cast of an arctanh result back to the input dtype
CastBack(r, dtype) ==
    IF r.k = "atanh" /\ r.bits + 1 > MaxFinite(dtype)
    THEN [done |-> TRUE, dtype |-> dtype, v |-> Inf(r.s)]
    ELSE [done |-> TRUE, dtype |-> dtype, v |-> r]

\* Mutant of Inverse: no cast to float32, the clip is done in the input dtype.
_inverseNoUpcast(yin) ==
    LET p == Precision(yin.dtype)
        y2 == Clip(yin.v, ClipBound(p))
    IN CastBack(Arctanh(y2), yin.dtype)

\* StableTanhBijector._inverse
_inverse(yin) ==
    LET dtype == yin.dtype
        y1 == AsType(yin.v, Precision("float32"))
        y2 == Clip(y1, ClipBound(Precision("float32")))
        y3 == Arctanh(y2)
    IN CastBack(y3, dtype)

\* inputs: 0, 0.5, 2, the grid around 1 and the neighbours of 1 in the two
\* 16-bit dtypes, each kept when the dtype represents it; both signs; inf; nan
Magnitudes ==
    {0, One \div 2, 2 * One, One - 32768, One + 65536, One - 262144, One + 524288}
        \cup {One + e : e \in (0 - NearOne)..NearOne}
InverseInputs ==
    {[dtype |-> d, v |-> Num(s, q)] :
        d \in DTypes, s \in {-1, 1}, q \in Magnitudes}
    \cup {[dtype |-> d, v |-> v] : d \in DTypes, v \in {Inf(1), Inf(-1), NaN}}

InitInverse ==
    /\ y \in {i \in InverseInputs :
                i.v.k = "num" => RoundTo(i.v.q, Precision(i.dtype)) = i.v.q}
    /\ inv = NoInverse
    /\ IdleBuffer /\ IdleTwin /\ IdleMode

CallInverse ==
    /\ ~inv.done
    /\ inv' = _inverse(y)
    /\ UNCHANGED <<rb, rngs, gen, ret, total, recent, rb2, gen2, ret2, dist, picked, y>>

NextInverse == CallInverse

SpecInverse == InitInverse /\ [][NextInverse]_vars

\* C9: for every input that is not nan (1.0, -1.0, values beyond the boundary
\* and infinities included) the inverse is a finite number of the input dtype:
\* the arctanh of an argument of magnitude at most 0.99999997, in float32
\* at most 1 - 2^-24, hence of magnitude below 12.5 * ln 2 (bits <= 24), with
\* the sign of the input.
C9_InverseFinite ==
    (inv.done /\ y.v.k # "nan") =>
        /\ inv.dtype = y.dtype
        /\ inv.v.k = "atanh"
        /\ inv.v.s = y.v.s
        /\ \/ One - inv.v.q > 16
           \/ (One - inv.v.q) * ClipLiteralDen >= (ClipLiteralDen - ClipLiteralNum) * One
        /\ inv.v.q <= One - 4
        /\ inv.v.bits <= 24
        /\ (y.v.k = "inf" \/ y.v.q >= One) => inv.v.q = One - 4

\* C9 witness: inverse(1.0) in float16 is the arctanh of 1 - 2^-24.
C9_Witness ==
    /\ inv.done /\ y.dtype = "float16" /\ y.v = Num(1, One)
    /\ inv.v.k = "atanh" /\ inv.v.q = One - 4 /\ inv.v.bits = 24

====
